---- MODULE Spec2Model ----
(***************************************************************************)
(* Model of the Property Sale API (src/main.py, src/schemas.py): the HTTP  *)
(* route handlers over a document store.  Every store round trip of a      *)
(* handler is one atomic step, so that concurrently handled requests       *)
(* interleave between the steps exactly where the code leaves the store.   *)
(* A handler is an async def that never awaits, so one server process runs *)
(* one handler at a time: a worker is a server process, and the workers    *)
(* share the store.  database.py (db, create_document) is not among the    *)
(* sources; create_document is modelled from its specified contract, an    *)
(* insert that returns the store-generated identifier.                     *)
(***************************************************************************)
EXTENDS Integers, Sequences, FiniteSets, TLC

(* ------------------------------------------------------------------ *)
(* Bounds of the model                                                 *)
(* ------------------------------------------------------------------ *)
\* identifiers the store hands out in one behaviour (documents ever inserted)
MaxIds == 2
\* POST /api/admin/seed calls whose outcome is recorded
MaxSeedCalls == 3
\* ticks of the wall clock read by datetime.now()
MaxClock == 1

\* the server processes that handle requests against the one store
Workers == {"w1", "w2"}

(* ------------------------------------------------------------------ *)
(* Values stored in documents and carried in JSON bodies               *)
(* ------------------------------------------------------------------ *)
\* one tagged shape for every Python value: k is the Python type, and the
\* payload sits in n (int/float/bool/datetime), s (str), l (list of str, or the
\* characters of an identifier string) or b (the bytes of an ObjectId)
Val(k, n, s, l, b) == [k |-> k, n |-> n, s |-> s, l |-> l, b |-> b]
NoneV == Val("none", 0, "", <<>>, <<>>)
IntV(n) == Val("num", n, "", <<>>, <<>>)
StrV(s) == Val("str", 0, s, <<>>, <<>>)
BoolV(t) == Val("bool", IF t THEN 1 ELSE 0, "", <<>>, <<>>)
ListV(l) == Val("list", 0, "", l, <<>>)
TimeV(t) == Val("datetime", t, "", <<>>, <<>>)
OidV(b) == Val("ObjectId", 0, "", <<>>, b)
CharsV(l) == Val("chars", 0, "", l, <<>>)

\* a dict with no key
EmptyDoc == [key \in {} |-> NoneV]

\* dict.get(key): None when the key is absent
Get(doc, key) == IF key \in DOMAIN doc THEN doc[key] ELSE NoneV

\* {**doc, **updates}: field-level overwrite
Merge(doc, updates) ==
    [key \in (DOMAIN doc) \cup (DOMAIN updates) |->
        IF key \in DOMAIN updates THEN updates[key] ELSE doc[key]]

\* dict.pop(key, None)
Pop(doc, key) == [k2 \in (DOMAIN doc) \ {key} |-> doc[k2]]

(* ------------------------------------------------------------------ *)
(* bson.ObjectId: 12 bytes, printed as 24 hexadecimal characters       *)
(* ------------------------------------------------------------------ *)
OidBytes == 12
OidHexLen == 24

HexDigits == <<"0", "1", "2", "3", "4", "5", "6", "7", "8", "9",
               "a", "b", "c", "d", "e", "f">>
UpperHex == <<"A", "B", "C", "D", "E", "F">>

IsHex(c) == (\E i \in 1..16 : HexDigits[i] = c) \/ (\E i \in 1..6 : UpperHex[i] = c)

HexVal(c) ==
    IF \E i \in 1..16 : HexDigits[i] = c
    THEN (CHOOSE i \in 1..16 : HexDigits[i] = c) - 1
    ELSE (CHOOSE i \in 1..6 : UpperHex[i] = c) + 9

\* ObjectId.is_valid(s) for a str: 24 characters, all hexadecimal
ObjectIdValid(s) == Len(s) = OidHexLen /\ \A i \in 1..Len(s) : IsHex(s[i])

\* ObjectId(s): the bytes the 24 characters spell (upper and lower case alike)
ObjectId(s) == [i \in 1..OidBytes |-> 16 * HexVal(s[2 * i - 1]) + HexVal(s[2 * i])]

\* str(oid): lower-case hexadecimal
OidStr(o) ==
    [i \in 1..OidHexLen |->
        IF i % 2 = 1 THEN HexDigits[(o[(i + 1) \div 2] \div 16) + 1]
                     ELSE HexDigits[(o[i \div 2] % 16) + 1]]

\* the n-th identifier the store generates (distinct for distinct n)
NewOid(n) == [i \in 1..OidBytes |-> IF i = 1 THEN 171 ELSE IF i = OidBytes THEN n ELSE 0]

(* ------------------------------------------------------------------ *)
(* Entity schemas (src/schemas.py)                                     *)
(* ------------------------------------------------------------------ *)
PropertyFields == {"title", "description", "price", "address", "city", "state",
                   "country", "bedrooms", "bathrooms", "square_feet", "images",
                   "status", "featured", "listed_at"}

RequiredStr == {"title", "address", "city", "state", "country"}
OptionalNonNeg == {"bedrooms", "bathrooms", "square_feet"}
\* the numeric fields declared with ge=0
NonNegFields == {"price"} \cup OptionalNonNeg

\* Field(default): the value model_dump() gives a field the payload leaves out
PropertyDefault(f) ==
    CASE f = "images" -> ListV(<<>>)
      [] f = "status" -> StrV("available")
      [] f = "featured" -> BoolV(FALSE)
      [] OTHER -> NoneV

OptionalOf(payload, f, kind) ==
    f \in DOMAIN payload => (payload[f].k = "none" \/ payload[f].k = kind)

\* Property(**payload) validates: required fields present and typed, ge=0 kept
PropertyValid(payload) ==
    /\ \A f \in RequiredStr : f \in DOMAIN payload /\ payload[f].k = "str"
    /\ "price" \in DOMAIN payload /\ payload["price"].k = "num" /\ payload["price"].n >= 0
    /\ \A f \in OptionalNonNeg :
          f \in DOMAIN payload =>
             \/ payload[f].k = "none"
             \/ payload[f].k = "num" /\ payload[f].n >= 0
    /\ OptionalOf(payload, "description", "str")
    /\ OptionalOf(payload, "listed_at", "datetime")
    /\ ("images" \in DOMAIN payload => payload["images"].k = "list")
    /\ ("status" \in DOMAIN payload => payload["status"].k = "str")
    /\ ("featured" \in DOMAIN payload => payload["featured"].k = "bool")

\* prop.model_dump(): every declared field, defaults filled in, extras dropped
PropertyDump(payload) ==
    [f \in PropertyFields |->
        IF f \in DOMAIN payload THEN payload[f] ELSE PropertyDefault(f)]

\* pwd_context.hash / pwd_context.verify: one-way, verified against the plaintext
HashPassword(plain) == Val("bcrypt", 0, plain, <<>>, <<>>)
VerifyPassword(plain, hash) == hash.k = "bcrypt" /\ hash.s = plain

SeedEmail == "admin@example.com"
SeedPassword == "admin123"

\* AdminUser(email=..., password_hash=..., name="Admin"), is_active defaulted
SeedAdminUser ==
    [f \in {"email", "password_hash", "name", "is_active"} |->
        CASE f = "email" -> StrV(SeedEmail)
          [] f = "password_hash" -> HashPassword(SeedPassword)
          [] f = "name" -> StrV("Admin")
          [] OTHER -> BoolV(TRUE)]

\* SiteSettings(site_name="Nova Estates", ...)
DefaultSettings ==
    [f \in {"site_name", "hero_headline", "hero_subtitle", "contact_email", "phone"} |->
        CASE f = "site_name" -> StrV("Nova Estates")
          [] f = "hero_headline" -> StrV("Find your next home")
          [] f = "hero_subtitle" -> StrV("Browse curated properties")
          [] OTHER -> NoneV]

(* ------------------------------------------------------------------ *)
(* The document store: a collection is the sequence of its documents   *)
(* in insertion (natural) order                                        *)
(* ------------------------------------------------------------------ *)
Matches(doc, filter) ==
    \A key \in DOMAIN filter : key \in DOMAIN doc /\ doc[key] = filter[key]

MatchIdx(coll, filter) == {i \in 1..Len(coll) : Matches(coll[i], filter)}

FirstIdx(coll, filter) ==
    CHOOSE i \in MatchIdx(coll, filter) : \A j \in MatchIdx(coll, filter) : i <= j

\* collection.find_one(filter): the first match, or None (the empty dict here:
\* both are falsy, and no stored document is empty since each has an _id)
FindOne(coll, filter) ==
    IF MatchIdx(coll, filter) = {} THEN EmptyDoc ELSE coll[FirstIdx(coll, filter)]

\* collection.update_one(filter, {"$set": updates}).matched_count
MatchedCount(coll, filter) == IF MatchIdx(coll, filter) = {} THEN 0 ELSE 1

\* an update that replaces the document by the update's fields
SetFieldsReplace(doc, updates) ==
    Merge([key \in {"_id"} |-> doc["_id"]], updates)

\* {"$set": updates} applied to one document: the named fields are overwritten
SetFields(doc, updates) == Merge(doc, updates)

\* an update that inserts the fields as a new document when nothing matches
UpdateOneUpsert(coll, filter, updates) ==
    IF MatchIdx(coll, filter) = {} THEN Append(coll, Merge(filter, updates))
    ELSE [coll EXCEPT ![FirstIdx(coll, filter)] = SetFields(@, updates)]

\* collection.update_one(filter, {"$set": updates}): no upsert
UpdateOne(coll, filter, updates) ==
    IF MatchIdx(coll, filter) = {} THEN coll
    ELSE [coll EXCEPT ![FirstIdx(coll, filter)] = SetFields(@, updates)]

\* collection.delete_one(filter).deleted_count
DeletedCount(coll, filter) == IF MatchIdx(coll, filter) = {} THEN 0 ELSE 1

\* collection.delete_one(filter)
DeleteOne(coll, filter) ==
    IF MatchIdx(coll, filter) = {} THEN coll
    ELSE LET i == FirstIdx(coll, filter)
         IN  [j \in 1..(Len(coll) - 1) |-> IF j < i THEN coll[j] ELSE coll[j + 1]]

\* create_document(collection, data): insert the document under a fresh _id
CreateDocument(coll, data, n) == Append(coll, Merge(data, [key \in {"_id"} |-> OidV(NewOid(n))]))

IdFilter(oid) == [key \in {"_id"} |-> OidV(oid)]

(* ------------------------------------------------------------------ *)
(* Helpers of src/main.py                                              *)
(* ------------------------------------------------------------------ *)
\* a serializer that adds id and forgets to drop _id
serialize_doc_keep(doc) ==
    IF doc = EmptyDoc THEN doc
    ELSE Merge(doc, [key \in {"id"} |-> CharsV(OidStr(Get(doc, "_id").b))])

\* serialize_doc(doc)
serialize_doc(doc) ==
    IF doc = EmptyDoc THEN doc
    ELSE LET id == Get(doc, "_id")
             withId == IF id.k = "ObjectId"
                       THEN Merge(doc, [key \in {"id"} |-> CharsV(OidStr(id.b))])
                       ELSE doc
         IN  Pop(withId, "_id")

\* seconds a token stays valid: 60 * 60 * 8
TokenTtl == 28800

\* create_token(payload): the claims with exp added, signed (the token is
\* modelled by the claims it carries: sub in l, email in s, exp in n)
create_token(sub, email, now) == Val("jwt", now + TokenTtl, email, sub, <<>>)

TokenClaimEmail(token) == token.s

Response(status, body) == [status |-> status, body |-> body]
Detail(text) == [key \in {"detail"} |-> StrV(text)]
NoResponse == Response(0, EmptyDoc)
\* an exception no handler catches (TypeError on db = None, bson InvalidId)
ServerError == Response(500, Detail("Internal Server Error"))
NotFound == Response(404, Detail("Property not found"))
InvalidCredentials == Response(401, Detail("Invalid credentials"))
Unprocessable == Response(422, Detail("validation error"))

(* ------------------------------------------------------------------ *)
(* Request inputs                                                      *)
(* ------------------------------------------------------------------ *)
UpperCase(c) ==
    IF \E i \in 11..16 : HexDigits[i] = c
    THEN UpperHex[(CHOOSE i \in 11..16 : HexDigits[i] = c) - 10]
    ELSE c

FirstId == OidStr(NewOid(1))
\* the same identifier as a client may spell it, in upper case
FirstIdUpper == [i \in 1..OidHexLen |-> UpperCase(FirstId[i])]
\* well formed, never handed out by the store (the store counts from 1)
AbsentId == OidStr(NewOid(0))
MalformedId == <<"n", "o", "p", "e">>

IdInputs == {FirstId, FirstIdUpper, AbsentId, MalformedId}

LakeHouse ==
    [f \in {"title", "price", "address", "city", "state", "country"} |->
        CASE f = "title" -> StrV("Lake House")
          [] f = "price" -> IntV(500)
          [] f = "address" -> StrV("1 Lake Rd")
          [] f = "city" -> StrV("Tahoe")
          [] f = "state" -> StrV("CA")
          [] OTHER -> StrV("US")]

Cabin == Merge(LakeHouse,
    [f \in {"title", "bedrooms", "featured", "listed_at"} |->
        CASE f = "title" -> StrV("Cabin")
          [] f = "bedrooms" -> IntV(2)
          [] f = "featured" -> BoolV(TRUE)
          [] OTHER -> NoneV])

NegativePrice == Merge(LakeHouse, [f \in {"price"} |-> IntV(-1)])

PropertyInputs == {LakeHouse, Cabin, NegativePrice}

PatchInputs ==
    { [f \in {"price"} |-> IntV(450)],
      [f \in {"price"} |-> IntV(-1)],
      [f \in {"status", "featured"} |->
          IF f = "status" THEN StrV("sold") ELSE BoolV(TRUE)] }

SettingsPatchInputs ==
    { [f \in {"site_name"} |-> StrV("Acme Homes")],
      [f \in {"phone"} |-> StrV("555-0100")] }

EmailInputs == {SeedEmail, "nobody@example.com"}
PasswordInputs == {SeedPassword, "guess"}

(* ------------------------------------------------------------------ *)
(* State                                                               *)
(* ------------------------------------------------------------------ *)
VARIABLES
    serial,    \* the server handles one request at a time (TRUE) or many (FALSE)
    dbUp,      \* database.db is a store handle (TRUE) or None (FALSE)
    store,     \* the collections: property, sitesettings, adminuser
    nextId,    \* the store's identifier generator
    clock,     \* datetime.now(timezone.utc)
    pc,        \* per worker: idle, the next store round trip of its handler, or done
    loc,       \* per worker: the handler's arguments and local variables
    resp,      \* per worker: the HTTP response of its finished request
    seedLog,   \* history: outcomes of the finished POST /api/admin/seed calls, in order
    posted     \* history: properties as POSTed that no PATCH or DELETE has touched since

vars == <<serial, dbUp, store, nextId, clock, pc, loc, resp, seedLog, posted>>

Locals(op, id, data, doc) == [op |-> op, id |-> id, data |-> data, doc |-> doc]
NoLocals == Locals("", <<>>, EmptyDoc, EmptyDoc)

InitStore ==
    /\ dbUp \in BOOLEAN
    /\ store = [property |-> <<>>, sitesettings |-> <<>>, adminuser |-> <<>>]
    /\ nextId = 1
    /\ clock = 0
    /\ pc = [p \in Workers |-> "idle"]
    /\ loc = [p \in Workers |-> NoLocals]
    /\ resp = [p \in Workers |-> NoResponse]
    /\ seedLog = <<>>
    /\ posted = {}

\* workers handle requests concurrently
Init == serial = FALSE /\ InitStore

\* requests are handled one at a time
InitSerial == serial = TRUE /\ InitStore

\* no request of another worker is in flight or waiting to be answered
Quiet(p) == \A q \in Workers \ {p} : pc[q] = "idle"

\* worker p stands at label and is scheduled
At(p, label) == pc[p] = label /\ (serial => Quiet(p))

\* the handler returns (or raises): the response is ready
Return(p, locals, r) ==
    /\ pc' = [pc EXCEPT ![p] = "done"]
    /\ loc' = [loc EXCEPT ![p] = locals]
    /\ resp' = [resp EXCEPT ![p] = r]

\* the handler goes on to its next store round trip
Goto(p, label, locals) ==
    /\ pc' = [pc EXCEPT ![p] = label]
    /\ loc' = [loc EXCEPT ![p] = locals]
    /\ UNCHANGED resp

Stamp(updates, field) == Merge(updates, [key \in {field} |-> TimeV(clock)])

Untouch(oid) == {r \in posted : ObjectId(r.id) # oid}

(* ------------------------------------------------------------------ *)
(* POST /api/admin/seed                                                *)
(* ------------------------------------------------------------------ *)
\* a seed that never finds the admin it created
SeedExistsNever(existing) == FALSE

\* if existing:
SeedExists(existing) == existing # EmptyDoc

SeedBody(status) ==
    IF status = "created"
    THEN [key \in {"status", "email", "password"} |->
            CASE key = "status" -> StrV("created")
              [] key = "email" -> StrV(SeedEmail)
              [] OTHER -> StrV(SeedPassword)]
    ELSE [key \in {"status"} |-> StrV(status)]

seed_admin(p) ==
    /\ At(p, "idle")
    /\ Len(seedLog) < MaxSeedCalls
    /\ LET me == Locals("seed", <<>>, EmptyDoc, EmptyDoc)
       IN  IF ~dbUp
           THEN /\ Return(p, me, ServerError)
                /\ seedLog' = Append(seedLog, "error")
           ELSE LET existing == FindOne(store.adminuser,
                                        [key \in {"email"} |-> StrV(SeedEmail)])
                IN  IF SeedExists(existing)
                    THEN /\ Return(p, me, Response(200, SeedBody("exists")))
                         /\ seedLog' = Append(seedLog, "exists")
                    ELSE /\ Goto(p, "seed_insert", me)
                         /\ UNCHANGED seedLog
    /\ UNCHANGED <<serial, dbUp, store, nextId, clock, posted>>

seed_insert(p) ==
    /\ At(p, "seed_insert")
    /\ nextId <= MaxIds
    /\ store' = [store EXCEPT !.adminuser = CreateDocument(@, SeedAdminUser, nextId)]
    /\ nextId' = nextId + 1
    /\ Return(p, loc[p], Response(200, SeedBody("created")))
    /\ seedLog' = Append(seedLog, "created")
    /\ UNCHANGED <<serial, dbUp, clock, posted>>

(* ------------------------------------------------------------------ *)
(* POST /api/admin/login                                               *)
(* ------------------------------------------------------------------ *)
\* a login that checks the email alone
LoginAcceptsAnyPassword(user, password) == user # EmptyDoc

\* neither "if not user" nor "if not pwd_context.verify(...)" raises
LoginAccepts(user, password) ==
    /\ user # EmptyDoc
    /\ VerifyPassword(password, Get(user, "password_hash"))

admin_login(p, email, password) ==
    /\ At(p, "idle")
    /\ LET me == Locals("login", <<>>,
                        [key \in {"email", "password"} |->
                            IF key = "email" THEN StrV(email) ELSE StrV(password)],
                        EmptyDoc)
       IN  IF ~dbUp
           THEN Return(p, me, ServerError)
           ELSE LET user == FindOne(store.adminuser, [key \in {"email"} |-> StrV(email)])
                IN  IF ~LoginAccepts(user, password)
                    THEN Return(p, me, InvalidCredentials)
                    ELSE Return(p, me, Response(200,
                            [key \in {"token", "name"} |->
                                IF key = "token"
                                THEN create_token(OidStr(Get(user, "_id").b),
                                                  Get(user, "email").s, clock)
                                ELSE Get(user, "name")]))
    /\ UNCHANGED <<serial, dbUp, store, nextId, clock, seedLog, posted>>

(* ------------------------------------------------------------------ *)
(* Properties CRUD                                                     *)
(* ------------------------------------------------------------------ *)
\* POST /api/properties: validate, stamp listed_at, insert
create_property(p, payload) ==
    /\ At(p, "idle")
    /\ IF ~PropertyValid(payload)
       THEN /\ Return(p, Locals("create", <<>>, payload, EmptyDoc), Unprocessable)
            /\ UNCHANGED <<store, nextId, posted>>
       ELSE IF ~dbUp
       THEN /\ Return(p, Locals("create", <<>>, payload, EmptyDoc),
                      Response(500, Detail("Database not configured")))
            /\ UNCHANGED <<store, nextId, posted>>
       ELSE /\ nextId <= MaxIds
            /\ LET data == Stamp(PropertyDump(payload), "listed_at")
                   new_id == OidStr(NewOid(nextId))
               IN  /\ store' = [store EXCEPT !.property = CreateDocument(@, data, nextId)]
                   /\ posted' = posted \cup {[id |-> new_id, payload |-> payload]}
                   /\ Goto(p, "create_find", Locals("create", new_id, payload, EmptyDoc))
            /\ nextId' = nextId + 1
    /\ UNCHANGED <<serial, dbUp, clock, seedLog>>

\* created = db["property"].find_one({"_id": ObjectId(new_id)}); return serialize_doc(created)
create_find(p) ==
    /\ At(p, "create_find")
    /\ LET created == FindOne(store.property, IdFilter(ObjectId(loc[p].id)))
       IN  Return(p, loc[p], Response(200, serialize_doc(created)))
    /\ UNCHANGED <<serial, dbUp, store, nextId, clock, seedLog, posted>>

\* GET /api/properties/{property_id}
get_property(p, property_id) ==
    /\ At(p, "idle")
    /\ LET me == Locals("get", property_id, EmptyDoc, EmptyDoc)
       IN  IF ~dbUp \/ ~ObjectIdValid(property_id)
           THEN Return(p, me, ServerError)
           ELSE LET doc == FindOne(store.property, IdFilter(ObjectId(property_id)))
                IN  IF doc = EmptyDoc
                    THEN Return(p, me, NotFound)
                    ELSE Return(p, me, Response(200, serialize_doc(doc)))
    /\ UNCHANGED <<serial, dbUp, store, nextId, clock, seedLog, posted>>

\* PATCH /api/properties/{property_id}: stamp updated_at, update_one($set)
update_property(p, property_id, body) ==
    /\ At(p, "idle")
    /\ LET updates == Stamp(body, "updated_at")
           me == Locals("patch", property_id, updates, EmptyDoc)
       IN  IF ~dbUp \/ ~ObjectIdValid(property_id)
           THEN /\ Return(p, me, ServerError)
                /\ UNCHANGED <<store, posted>>
           ELSE LET filter == IdFilter(ObjectId(property_id))
                IN  /\ store' = [store EXCEPT !.property = UpdateOne(@, filter, updates)]
                    /\ IF MatchedCount(store.property, filter) = 0
                       THEN /\ Return(p, me, NotFound)
                            /\ UNCHANGED posted
                       ELSE /\ posted' = Untouch(ObjectId(property_id))
                            /\ Goto(p, "patch_find", me)
    /\ UNCHANGED <<serial, dbUp, nextId, clock, seedLog>>

\* doc = db["property"].find_one({"_id": ObjectId(property_id)}); return serialize_doc(doc)
patch_find(p) ==
    /\ At(p, "patch_find")
    /\ LET doc == FindOne(store.property, IdFilter(ObjectId(loc[p].id)))
       IN  Return(p, loc[p], Response(200, serialize_doc(doc)))
    /\ UNCHANGED <<serial, dbUp, store, nextId, clock, seedLog, posted>>

\* DELETE /api/properties/{property_id}
delete_property(p, property_id) ==
    /\ At(p, "idle")
    /\ LET me == Locals("delete", property_id, EmptyDoc, EmptyDoc)
       IN  IF ~dbUp \/ ~ObjectIdValid(property_id)
           THEN /\ Return(p, me, ServerError)
                /\ UNCHANGED <<store, posted>>
           ELSE LET filter == IdFilter(ObjectId(property_id))
                IN  /\ store' = [store EXCEPT !.property = DeleteOne(@, filter)]
                    /\ IF DeletedCount(store.property, filter) = 0
                       THEN /\ Return(p, me, NotFound)
                            /\ UNCHANGED posted
                       ELSE /\ posted' = Untouch(ObjectId(property_id))
                            /\ Return(p, me, Response(200, [key \in {"status"} |-> StrV("ok")]))
    /\ UNCHANGED <<serial, dbUp, nextId, clock, seedLog>>

(* ------------------------------------------------------------------ *)
(* Site settings                                                       *)
(* ------------------------------------------------------------------ *)
\* a check that never sees the stored settings
SettingsMissingAlways(doc) == TRUE

\* if not doc:
SettingsMissing(doc) == doc = EmptyDoc

\* GET /api/settings: doc = db["sitesettings"].find_one({})
get_settings(p) ==
    /\ At(p, "idle")
    /\ LET me == Locals("get_settings", <<>>, EmptyDoc, EmptyDoc)
       IN  IF ~dbUp
           THEN Return(p, me, ServerError)
           ELSE LET doc == FindOne(store.sitesettings, EmptyDoc)
                IN  IF SettingsMissing(doc)
                    THEN Goto(p, "get_settings_insert", me)
                    ELSE Return(p, me, Response(200, serialize_doc(doc)))
    /\ UNCHANGED <<serial, dbUp, store, nextId, clock, seedLog, posted>>

\* an insert that looks again and creates the defaults only if still absent
get_settings_insert_if_absent(p) ==
    /\ At(p, "get_settings_insert")
    /\ nextId <= MaxIds
    /\ IF store.sitesettings = <<>>
       THEN /\ store' = [store EXCEPT !.sitesettings =
                            CreateDocument(@, DefaultSettings, nextId)]
            /\ nextId' = nextId + 1
       ELSE UNCHANGED <<store, nextId>>
    /\ Goto(p, "get_settings_find", loc[p])
    /\ UNCHANGED <<serial, dbUp, clock, seedLog, posted>>

\* create_document("sitesettings", defaults)
get_settings_insert(p) ==
    /\ At(p, "get_settings_insert")
    /\ nextId <= MaxIds
    /\ store' = [store EXCEPT !.sitesettings = CreateDocument(@, DefaultSettings, nextId)]
    /\ nextId' = nextId + 1
    /\ Goto(p, "get_settings_find", loc[p])
    /\ UNCHANGED <<serial, dbUp, clock, seedLog, posted>>

\* doc = db["sitesettings"].find_one({}); return serialize_doc(doc)
get_settings_find(p) ==
    /\ At(p, "get_settings_find")
    /\ Return(p, loc[p], Response(200, serialize_doc(FindOne(store.sitesettings, EmptyDoc))))
    /\ UNCHANGED <<serial, dbUp, store, nextId, clock, seedLog, posted>>

\* PATCH /api/settings: stamp updated_at, doc = db["sitesettings"].find_one({})
update_settings(p, body) ==
    /\ At(p, "idle")
    /\ LET updates == Stamp(body, "updated_at")
       IN  IF ~dbUp
           THEN Return(p, Locals("patch_settings", <<>>, updates, EmptyDoc), ServerError)
           ELSE LET doc == FindOne(store.sitesettings, EmptyDoc)
                IN  IF ~SettingsMissing(doc)
                    THEN Goto(p, "update_settings_update",
                              Locals("patch_settings", <<>>, updates, doc))
                    ELSE Goto(p, "update_settings_insert",
                              Locals("patch_settings", <<>>, updates, EmptyDoc))
    /\ UNCHANGED <<serial, dbUp, store, nextId, clock, seedLog, posted>>

\* db["sitesettings"].update_one({"_id": doc["_id"]}, {"$set": updates})
update_settings_update(p) ==
    /\ At(p, "update_settings_update")
    /\ store' = [store EXCEPT !.sitesettings =
                    UpdateOne(@, IdFilter(loc[p].doc["_id"].b), loc[p].data)]
    /\ Goto(p, "update_settings_find", loc[p])
    /\ UNCHANGED <<serial, dbUp, nextId, clock, seedLog, posted>>

\* create_document("sitesettings", updates)
update_settings_insert(p) ==
    /\ At(p, "update_settings_insert")
    /\ nextId <= MaxIds
    /\ store' = [store EXCEPT !.sitesettings = CreateDocument(@, loc[p].data, nextId)]
    /\ nextId' = nextId + 1
    /\ Goto(p, "update_settings_find", loc[p])
    /\ UNCHANGED <<serial, dbUp, clock, seedLog, posted>>

\* doc = db["sitesettings"].find_one({}); return serialize_doc(doc)
update_settings_find(p) ==
    /\ At(p, "update_settings_find")
    /\ Return(p, loc[p], Response(200, serialize_doc(FindOne(store.sitesettings, EmptyDoc))))
    /\ UNCHANGED <<serial, dbUp, store, nextId, clock, seedLog, posted>>

(* ------------------------------------------------------------------ *)
(* The server                                                          *)
(* ------------------------------------------------------------------ *)
\* the response is sent and the worker takes the next request
Reply(p) ==
    /\ At(p, "done")
    /\ pc' = [pc EXCEPT ![p] = "idle"]
    /\ loc' = [loc EXCEPT ![p] = NoLocals]
    /\ resp' = [resp EXCEPT ![p] = NoResponse]
    /\ UNCHANGED <<serial, dbUp, store, nextId, clock, seedLog, posted>>

\* time passes
Tick ==
    /\ clock < MaxClock
    /\ clock' = clock + 1
    /\ UNCHANGED <<serial, dbUp, store, nextId, pc, loc, resp, seedLog, posted>>

\* The three groups of routes share no collection: the admin routes touch only
\* adminuser, the property routes only property, the settings routes only
\* sitesettings.  Each group is also checked on its own, with the other routes
\* not called.

\* one step of worker p in an admin route
AdminStep(p) ==
    \/ seed_admin(p)
    \/ seed_insert(p)
    \/ \E email \in EmailInputs, password \in PasswordInputs : admin_login(p, email, password)
    \/ Reply(p)

\* one step of worker p in a property route
PropertyStep(p) ==
    \/ \E payload \in PropertyInputs : create_property(p, payload)
    \/ create_find(p)
    \/ \E id \in IdInputs : get_property(p, id)
    \/ \E id \in IdInputs, body \in PatchInputs : update_property(p, id, body)
    \/ patch_find(p)
    \/ \E id \in IdInputs : delete_property(p, id)
    \/ Reply(p)

\* one step of worker p in a settings route
SettingsStep(p) ==
    \/ get_settings(p)
    \/ get_settings_insert(p)
    \/ get_settings_find(p)
    \/ \E body \in SettingsPatchInputs : update_settings(p, body)
    \/ update_settings_update(p)
    \/ update_settings_insert(p)
    \/ update_settings_find(p)
    \/ Reply(p)

\* workers handle requests concurrently, interleaving between store round trips
Next == (\E p \in Workers : AdminStep(p) \/ PropertyStep(p) \/ SettingsStep(p)) \/ Tick
Spec == Init /\ [][Next]_vars

NextAdmin == (\E p \in Workers : AdminStep(p)) \/ Tick
SpecAdmin == Init /\ [][NextAdmin]_vars

NextProperty == (\E p \in Workers : PropertyStep(p)) \/ Tick
SpecProperty == Init /\ [][NextProperty]_vars

NextSettings == (\E p \in Workers : SettingsStep(p)) \/ Tick
SpecSettings == Init /\ [][NextSettings]_vars

\* requests are handled one at a time: the same steps, scheduled by serial
SpecAdminSeq == InitSerial /\ [][NextAdmin]_vars
SpecPropertySeq == InitSerial /\ [][NextProperty]_vars
SpecSettingsSeq == InitSerial /\ [][NextSettings]_vars

(* ------------------------------------------------------------------ *)
(* Claims: admin routes                                                *)
(* ------------------------------------------------------------------ *)
\* the worker's request ends in this step
Ends(p, op) == pc[p] # "done" /\ pc'[p] = "done" /\ loc'[p].op = op

SeedAdmins == MatchIdx(store.adminuser, [key \in {"email"} |-> StrV(SeedEmail)])

SeedDone(p) == pc[p] = "done" /\ loc[p].op = "seed"

\* C1: with requests handled one after the other and no admin@example.com in the
\* store at the start, the first POST /api/admin/seed answers "created" and every
\* later one "exists"; from the first answer on the adminuser collection holds
\* exactly one document, the seeded admin, and no later call changes it.
C1_SeedOnce ==
    /\ [](dbUp =>
            /\ \A i \in 1..Len(seedLog) :
                  seedLog[i] = IF i = 1 THEN "created" ELSE "exists"
            /\ \A p \in Workers :
                  SeedDone(p) =>
                     resp[p] = Response(200, SeedBody(seedLog[Len(seedLog)]))
            /\ Len(seedLog) >= 1 =>
                  /\ Len(store.adminuser) = 1
                  /\ Cardinality(SeedAdmins) = 1
                  /\ Pop(store.adminuser[1], "_id") = SeedAdminUser)
    /\ [][Len(seedLog) >= 1 => store'.adminuser = store.adminuser]_vars

\* three seed calls in a row: created, exists, exists
C1_Witness ==
    /\ dbUp
    /\ seedLog = <<"created", "exists", "exists">>
    /\ Len(store.adminuser) = 1
    /\ \E p \in Workers : SeedDone(p) /\ resp[p].body["status"] = StrV("exists")

LoginDone(p) == pc[p] = "done" /\ loc[p].op = "login"

\* the AdminUser documents the credentials verify against
Verified(email, password) ==
    {i \in 1..Len(store.adminuser) :
        /\ Get(store.adminuser[i], "email") = StrV(email)
        /\ VerifyPassword(password, Get(store.adminuser[i], "password_hash"))}

\* C6: POST /api/admin/login answers with a token exactly when an AdminUser with
\* the given email exists and the password verifies against its hash, and the
\* token's email claim is then the login email; otherwise (unknown email or wrong
\* password alike) it answers 401 "Invalid credentials" without a token; no login
\* changes the store.
C6_Login ==
    [][\A p \in Workers :
          (dbUp /\ Ends(p, "login")) =>
             LET email == loc'[p].data["email"].s
                 password == loc'[p].data["password"].s
             IN  /\ store' = store
                 /\ IF Verified(email, password) # {}
                    THEN /\ resp'[p].status = 200
                         /\ "token" \in DOMAIN resp'[p].body
                         /\ resp'[p].body["token"].k = "jwt"
                         /\ TokenClaimEmail(resp'[p].body["token"]) = email
                    ELSE /\ resp'[p] = InvalidCredentials
                         /\ "token" \notin DOMAIN resp'[p].body]_vars

\* one login accepted, and one with the right email and a wrong password refused
C6_Witness ==
    /\ dbUp
    /\ \E p, q \in Workers :
          /\ LoginDone(p) /\ resp[p].status = 200
          /\ TokenClaimEmail(resp[p].body["token"]) = SeedEmail
          /\ LoginDone(q) /\ resp[q].status = 401
          /\ loc[q].data["email"] = StrV(SeedEmail)
          /\ loc[q].data["password"] = StrV("guess")

(* ------------------------------------------------------------------ *)
(* Claims: settings routes                                             *)
(* ------------------------------------------------------------------ *)
\* the transport form of a stored document: _id renamed to id, as a string
Transport(body, doc) ==
    /\ body # EmptyDoc
    /\ "_id" \notin DOMAIN body
    /\ "id" \in DOMAIN body
    /\ body["id"] = CharsV(OidStr(doc["_id"].b))
    /\ Pop(body, "id") = Pop(doc, "_id")

\* C8: a GET /api/settings that found no document inserts the defaults when its
\* turn comes, whatever the collection holds by then; so two requests that both
\* found it empty both insert, and the collection holds two settings documents.
C8_InsertAfterStaleRead ==
    [][\A p \in Workers :
          (pc[p] = "get_settings_insert" /\ pc'[p] = "get_settings_find") =>
             /\ Len(store'.sitesettings) = Len(store.sitesettings) + 1
             /\ SubSeq(store'.sitesettings, 1, Len(store.sitesettings)) = store.sitesettings
             /\ Pop(store'.sitesettings[Len(store'.sitesettings)], "_id") = DefaultSettings]_vars

\* two GET requests interleaved on the empty collection left two default documents
C8_Witness ==
    /\ ~serial
    /\ Len(store.sitesettings) = 2
    /\ \A i \in 1..2 : Pop(store.sitesettings[i], "_id") = DefaultSettings
    /\ \A p \in Workers :
          loc[p].op = "get_settings" /\ pc[p] \in {"get_settings_find", "done"}

SettingsOps == {"get_settings", "patch_settings"}

\* C9: with requests handled one at a time and the sitesettings collection empty
\* at the start, every GET or PATCH /api/settings leaves exactly one document and
\* returns it; the collection never holds more than one, and once it holds one
\* it keeps holding exactly one.
C9_Singleton ==
    /\ [](Len(store.sitesettings) <= 1)
    /\ [][/\ \A p \in Workers :
               (dbUp /\ \E op \in SettingsOps : Ends(p, op)) =>
                  /\ Len(store'.sitesettings) = 1
                  /\ resp'[p].status = 200
                  /\ Transport(resp'[p].body, store'.sitesettings[1])
          /\ Len(store.sitesettings) = 1 => Len(store'.sitesettings) = 1]_vars

\* the defaults created by a GET, then changed by a PATCH that returned them
C9_Witness ==
    /\ serial /\ dbUp
    /\ Len(store.sitesettings) = 1
    /\ Get(store.sitesettings[1], "site_name") = StrV("Acme Homes")
    /\ Get(store.sitesettings[1], "hero_headline") = DefaultSettings["hero_headline"]
    /\ \E p \in Workers :
          /\ pc[p] = "done" /\ loc[p].op = "patch_settings"
          /\ Get(resp[p].body, "site_name") = StrV("Acme Homes")

(* ------------------------------------------------------------------ *)
(* Claims: property routes                                             *)
(* ------------------------------------------------------------------ *)
\* worker p takes up a request in this step
Begins(p, op) == pc[p] = "idle" /\ pc'[p] # "idle" /\ loc'[p].op = op

Stored(id) == MatchIdx(store.property, IdFilter(ObjectId(id)))

\* C2: GET, PATCH and DELETE /api/properties/{id} with a well-formed id that
\* is not in the property collection answer 404 and leave the collection as it
\* was (PATCH creates nothing).
C2_AbsentIs404 ==
    [][\A p \in Workers :
          (/\ dbUp
           /\ \E op \in {"get", "patch", "delete"} : Begins(p, op)
           /\ ObjectIdValid(loc'[p].id)
           /\ Stored(loc'[p].id) = {}) =>
             /\ pc'[p] = "done"
             /\ resp'[p].status = 404
             /\ store' = store]_vars

\* a PATCH of an absent id answered 404 while another property is stored
C2_Witness ==
    /\ dbUp
    /\ store.property # <<>>
    /\ \E p \in Workers :
          /\ pc[p] = "done" /\ loc[p].op = "patch"
          /\ loc[p].id = AbsentId
          /\ resp[p] = NotFound

\* C3 (as claimed): GET /api/properties/{id} with a malformed id answers 404
C3_MalformedIs404 ==
    \A p \in Workers :
       (dbUp /\ pc[p] = "done" /\ loc[p].op = "get" /\ ~ObjectIdValid(loc[p].id)) =>
          resp[p].status = 404

\* after differs from before only in the supplied fields (updated_at among them)
PatchedOnly(before, after, supplied) ==
    /\ DOMAIN after = (DOMAIN before) \cup (DOMAIN supplied)
    /\ \A key \in (DOMAIN before) \ (DOMAIN supplied) : after[key] = before[key]
    /\ \A key \in DOMAIN supplied : after[key] = supplied[key]
    /\ "updated_at" \in DOMAIN supplied

\* C4: a PATCH /api/properties/{i} of a stored property with the fields F changes,
\* in that document, only the fields of F and updated_at, and changes no other
\* document.
C4_PatchFrame ==
    [][\A p \in Workers :
          (Begins(p, "patch") /\ pc'[p] = "patch_find") =>
             /\ Len(store'.property) = Len(store.property)
             /\ \E j \in 1..Len(store.property) :
                   store.property[j]["_id"].b = ObjectId(loc'[p].id)
             /\ \A j \in 1..Len(store.property) :
                   IF store.property[j]["_id"].b = ObjectId(loc'[p].id)
                   THEN PatchedOnly(store.property[j], store'.property[j], loc'[p].data)
                   ELSE store'.property[j] = store.property[j]
             /\ store'.sitesettings = store.sitesettings
             /\ store'.adminuser = store.adminuser]_vars

\* a PATCH of the price of one of two stored properties went through
C4_Witness ==
    /\ Len(store.property) = 2
    /\ \E p \in Workers :
          /\ pc[p] = "done" /\ loc[p].op = "patch" /\ resp[p].status = 200
          /\ loc[p].data["price"] = IntV(450)
          /\ store.property[1]["price"] = IntV(450)
          /\ store.property[1]["title"] = StrV("Lake House")
          /\ "updated_at" \in DOMAIN store.property[1]
          /\ "updated_at" \notin DOMAIN store.property[2]

\* the schema's defaults, as the Property class declares them
C5_Defaulted(payload, f) ==
    IF f \in DOMAIN payload THEN payload[f]
    ELSE IF f = "images" THEN ListV(<<>>)
    ELSE IF f = "status" THEN StrV("available")
    ELSE IF f = "featured" THEN BoolV(FALSE)
    ELSE NoneV

\* the document a GET is to return for payload, POSTed and stored under id
C5_Returned(body, payload, id) ==
    /\ DOMAIN body = PropertyFields \cup {"id"}
    /\ \A f \in PropertyFields \ {"listed_at"} : body[f] = C5_Defaulted(payload, f)
    /\ body["id"] = CharsV(id)
    /\ body["listed_at"].k = "datetime"

\* C5: POST /api/properties of a valid payload P returns an id, and a GET with that
\* id (no PATCH or DELETE of the document in between) returns P's fields with the
\* schema defaults filled in, plus id equal to the POST's and a populated
\* listed_at, and no _id key.
C5_PostThenGet ==
    [][\A p \in Workers :
          /\ (dbUp /\ Ends(p, "create") /\ PropertyValid(loc'[p].data)) =>
                /\ resp'[p].status = 200
                /\ C5_Returned(resp'[p].body, loc'[p].data, loc'[p].id)
                /\ [id |-> loc'[p].id, payload |-> loc'[p].data] \in posted
          /\ \A r \in posted :
                (Ends(p, "get") /\ loc'[p].id = r.id) =>
                   /\ resp'[p].status = 200
                   /\ C5_Returned(resp'[p].body, r.payload, r.id)]_vars

\* a GET returned the Cabin as POSTed, defaults filled in
C5_Witness ==
    \E p \in Workers :
       /\ pc[p] = "done" /\ loc[p].op = "get" /\ resp[p].status = 200
       /\ [id |-> loc[p].id, payload |-> Cabin] \in posted
       /\ resp[p].body["title"] = StrV("Cabin")
       /\ resp[p].body["status"] = StrV("available")

\* C7 (as claimed): every stored property has price, bedrooms, bathrooms and
\* square_feet non-negative wherever they are set
C7_NonNegative ==
    \A i \in 1..Len(store.property) :
       \A f \in NonNegFields :
          (f \in DOMAIN store.property[i] /\ store.property[i][f].k = "num") =>
             store.property[i][f].n >= 0

\* C10 (as claimed, the part a concurrent DELETE decides): a PATCH
\* /api/properties/{id} ends either in 404 or in a success response that is the
\* document with that id, never in a success response with an empty body
C10_PatchOutcome ==
    \A p \in Workers :
       (dbUp /\ pc[p] = "done" /\ loc[p].op = "patch" /\ ObjectIdValid(loc[p].id)) =>
          \/ resp[p].status = 404
          \/ /\ resp[p].status = 200
             /\ resp[p].body # EmptyDoc
             /\ Get(resp[p].body, "id") = CharsV(OidStr(ObjectId(loc[p].id)))

====
